---- MODULE Spec2Model ----
(***************************************************************************)
(* Cache-aside user service of kubernetes-autoscale-webapp: the handlers   *)
(* of backend/handlers (GetUsers, CreateUser, GetUser, health and stress)  *)
(* over a PostgreSQL table "users" and a Redis cache, each request running *)
(* on its own goroutine.  One action per I/O round trip of a handler;      *)
(* everything a handler does between two round trips belongs to the        *)
(* earlier action.                                                         *)
(* A read writes its response with its last round trip; CreateUser writes  *)
(* it in a step of its own, after the invalidation.                        *)
(* Every Store and Cache call either answers or fails, chosen per call.    *)
(***************************************************************************)
EXTENDS Integers, Sequences, FiniteSets, TLC

\* ------------------------------------------------------------------ bounds
\* Goroutines serving requests at the same time.
Procs == {"r1", "r2"}
\* Request inputs.
Names == {"Ada"}
Emails == {"ada@example.com", "bob@example.com"}
IdParams == {"1", "abc"}
\* Values the SERIAL sequence of users.id hands out in one behaviour.
MaxSeq == 2
\* Minutes between two observations of the cache's clock.
TickMinutes == 2
\* Steps of the loop of the stress handler (iterations := 100000000 in the code).
Iterations == 3

\* ------------------------------------------------------- program constants
\* 5*time.Minute, the expiry passed to every RDB.Set, in minutes.
TTL == 5
StatusOK == 200
StatusBadRequest == 400
StatusNotFound == 404
StatusInternalServerError == 500
\* iterations := 100000000 of the stress handler.
CodeIterations == 100000000
\* The width of int, the type of result and of StressTestResponse.Result, in
\* the linux builds of the Dockerfile (amd64, arm64).
IntBits_Narrow == 64 \div 2
IntBits == 64

VARIABLES
    users,        \* rows of table users, in insertion order
    seq,          \* last value handed out by the SERIAL sequence of users.id
    tableExists,  \* CREATE TABLE IF NOT EXISTS has run
    cache,        \* Redis: key -> [val, ttl], ttl the minutes left to live
    router,       \* which main() routes the requests
    pc,           \* per goroutine: the next round trip of its handler
    req,          \* per goroutine: the request being served
    loc,          \* per goroutine: the handler's local variables
    calls,        \* per goroutine: the Store and Cache calls of the request so far
    follows,      \* per goroutine: no handler has run since the last response but its own
    last          \* the request that returned last, its response, its calls and
                  \* whether it ran alone, as a client sees them that sends one
                  \* request at a time

storeVars == <<users, seq, tableExists>>
reqVars == <<pc, req, loc, calls, follows, last>>
vars == <<users, seq, tableExists, cache, router, pc, req, loc, calls, follows, last>>

\* ------------------------------------------------------------ serialization
NL == [json |-> "newline"]

\* models.User with its four json tags.
UserJSON(u) ==
    [json |-> "object", id |-> u.id, name |-> u.name, email |-> u.email,
     created_at |-> u.created_at]

\* A nil slice marshals to null, a non-empty one to an array.
UsersJSON_AlwaysArray(us) ==
    [json |-> "array", elems |-> [i \in 1..Len(us) |-> UserJSON(us[i])]]
UsersJSON(us) ==
    IF Len(us) = 0 THEN [json |-> "null"]
    ELSE [json |-> "array", elems |-> [i \in 1..Len(us) |-> UserJSON(us[i])]]

\* json.Marshal: the value's JSON text.
Marshal(j) == <<j>>

\* json.NewEncoder(w).Encode: the value's JSON text followed by a newline.
Encode(j) == <<j, NL>>

\* http.Error: the message and a newline, under the given status.
HttpError(msg, code) == [status |-> code, body |-> <<[json |-> "text", msg |-> msg], NL>>]

NoResp == [status |-> 0, body |-> <<>>]
NoUser == [id |-> 0, name |-> "", email |-> "", created_at |-> 0]
NoLoc == [id |-> 0, users |-> <<>>, user |-> NoUser, i |-> 0, result |-> 0]
NoReq == [op |-> "none"]
NoLast == [req |-> NoReq, resp |-> NoResp, calls |-> <<>>, alone |-> FALSE]

\* ------------------------------------------------------------------ routing
\* strconv.Atoi on the decimal strings the model uses.
Atoi(s) ==
    IF \E n \in 0..9 : ToString(n) = s
    THEN [err |-> FALSE, val |-> CHOOSE n \in 0..9 : ToString(n) = s]
    ELSE [err |-> TRUE, val |-> 0]

\* mux.Vars(r)["id"]: gorilla's router stores the path variable in the request
\* context; http.ServeMux does not, and the lookup yields the empty string.
MuxVarsId(seg) == IF router = "gorilla" THEN seg ELSE ""

\* -------------------------------------------------------------------- cache
UsersAllKey_PerUser == "user:1"
UsersAllKey == "users:all"
UserKey(id) == "user:" \o ToString(id)

\* RDB.Get(...).Result(): err is nil only when the cache answers and holds the key.
RDBGet(key, up) ==
    IF up /\ key \in DOMAIN cache
    THEN [err |-> FALSE, val |-> cache[key].val]
    ELSE [err |-> TRUE, val |-> <<>>]

\* "if err == nil": the lookup is a hit and the handler answers from the cache.
CacheHit_Never(cached) == FALSE
CacheHit(cached) == ~cached.err

\* RDB.Set(ctx, key, value, expiration): the cache after the call.
RDBSet_KeepTTL(key, value, expiration, up) ==
    IF up
    THEN [k \in DOMAIN cache \cup {key} |->
            IF k = key
            THEN [val |-> value,
                  ttl |-> IF key \in DOMAIN cache THEN cache[key].ttl ELSE expiration]
            ELSE cache[k]]
    ELSE cache
RDBSet(key, value, expiration, up) ==
    IF up
    THEN [k \in DOMAIN cache \cup {key} |->
            IF k = key THEN [val |-> value, ttl |-> expiration] ELSE cache[k]]
    ELSE cache

\* RDB.Del(ctx, key): the cache after the call.
RDBDel(key, up) ==
    IF up THEN [k \in DOMAIN cache \ {key} |-> cache[k]] ELSE cache

\* One call of a request and whether it returned an error (a cache miss,
\* redis.Nil, is an error like any other).
Call(name, err) == [call |-> name, err |-> err]

\* -------------------------------------------------------------------- store
\* email VARCHAR(100) UNIQUE
EmailTaken_NoConstraint(email) == FALSE
EmailTaken(email) == \E i \in 1..Len(users) : users[i].email = email

\* created_at TIMESTAMP DEFAULT CURRENT_TIMESTAMP: the Store's clock at the
\* insert, which is the newest timestamp of the table or a later one.
MaxCreatedAt == IF Len(users) = 0 THEN 0 ELSE users[Len(users)].created_at
CurrentTimestamps == IF Len(users) = 0 THEN {1} ELSE {MaxCreatedAt, MaxCreatedAt + 1}

\* SELECT ... ORDER BY created_at DESC: every ordering of the rows that is
\* descending in created_at (rows of equal created_at come in any order).
Orderings(n) == {f \in [1..n -> 1..n] : \A i, j \in 1..n : i # j => f[i] # f[j]}
OrderedByCreatedAtDesc(rows) ==
    {[i \in 1..Len(rows) |-> rows[f[i]]] : f \in
        {g \in Orderings(Len(rows)) :
            \A i \in 1..Len(rows) - 1 : rows[g[i]].created_at >= rows[g[i + 1]].created_at}}
SelectAllOrdered == OrderedByCreatedAtDesc(users)

\* SELECT ... WHERE id = $1
SelectById(id) == {users[i] : i \in {j \in 1..Len(users) : users[j].id = id}}

\* The error text of a Store call that fails.
StoreErrMsg(up) == IF up THEN "pq: relation \"users\" does not exist" ELSE "dial tcp: connection refused"
DuplicateMsg == "pq: duplicate key value violates unique constraint \"users_email_key\""

\* ----------------------------------------------------------------- requests
Idle(p) == pc[p] = "idle"
InFlight(p) == ~Idle(p)

\* A request arrives at goroutine p.  It directly follows the last response
\* when no handler is running; a handler that is running no longer does, so
\* follows[p] stays true for as long as p overlaps no other request.
Begin(p) ==
    /\ Idle(p)
    /\ follows' = [q \in Procs |-> IF q = p THEN \A o \in Procs : Idle(o) ELSE FALSE]

\* The handler of p returns from request r, after the calls cs, having
\* written response w.
Return(p, r, cs, w) ==
    /\ last' = [req |-> r, resp |-> w, calls |-> cs, alone |-> follows'[p]]
    /\ pc' = [pc EXCEPT ![p] = "idle"]
    /\ req' = [req EXCEPT ![p] = NoReq]
    /\ loc' = [loc EXCEPT ![p] = NoLoc]
    /\ calls' = [calls EXCEPT ![p] = <<>>]

\* The handler of p, serving r, goes on to its next round trip with locals l
\* after the calls cs.  The last response is forgotten when a request
\* arrives while another is being served.
Goto(p, label, r, cs, l) ==
    /\ pc' = [pc EXCEPT ![p] = label]
    /\ req' = [req EXCEPT ![p] = r]
    /\ loc' = [loc EXCEPT ![p] = l]
    /\ calls' = [calls EXCEPT ![p] = cs]
    /\ last' = IF Idle(p) /\ \E o \in Procs : InFlight(o) THEN NoLast ELSE last

\* GetUsers, lines 35-40: the cache lookup; a hit is written back unchanged.
GetUsers_Get(p) ==
    \E up \in BOOLEAN :
    LET r == [op |-> "GetUsers"]
        cachedUsers == RDBGet(UsersAllKey, up)
        cs == <<Call("RDB.Get", cachedUsers.err)>> IN
    /\ Begin(p)
    /\ IF CacheHit(cachedUsers)
       THEN Return(p, r, cs, [status |-> StatusOK, body |-> cachedUsers.val])
       ELSE Goto(p, "GetUsers_Query", r, cs, NoLoc)
    /\ UNCHANGED <<storeVars, cache, router>>

\* GetUsers, lines 42-58: the query and the rows.Next loop.  rows.Next
\* returns false at the end of the rows and also when the connection fails,
\* and rows.Err is not consulted: a failure after k rows leaves the first k.
\* The call recorded as rows.Next has failed when the loop ended that way.
GetUsers_Query(p) ==
    \E up \in BOOLEAN :
    /\ pc[p] = "GetUsers_Query"
    /\ UNCHANGED <<storeVars, cache, router, follows>>
    /\ IF ~(up /\ tableExists)
       THEN Return(p, req[p], Append(calls[p], Call("DB.Query", TRUE)),
                   HttpError(StoreErrMsg(up), StatusInternalServerError))
       ELSE \E rows \in SelectAllOrdered : \E k \in 0..Len(rows) :
            Goto(p, "GetUsers_Set", req[p],
                 calls[p] \o <<Call("DB.Query", FALSE), Call("rows.Next", k < Len(rows))>>,
                 [NoLoc EXCEPT !.users = SubSeq(rows, 1, k)])

\* GetUsers, lines 60-63: the write-back with the fixed expiry, then the response.
GetUsers_Set(p) ==
    \E up \in BOOLEAN :
    /\ pc[p] = "GetUsers_Set"
    /\ UNCHANGED <<storeVars, router, follows>>
    /\ cache' = RDBSet(UsersAllKey, Marshal(UsersJSON(loc[p].users)), TTL, up)
    /\ Return(p, req[p], Append(calls[p], Call("RDB.Set", ~up)),
              [status |-> StatusOK, body |-> Encode(UsersJSON(loc[p].users))])

\* The request body of POST /api/users, as the JSON texts that follow one
\* another in it: objects with a name and an email, and text that is no JSON
\* value (a missing comma, a stray brace).  A body is empty, or one text, or
\* an object with more text after it.
Objects == [json : {"object"}, name : Names, email : Emails]
Invalid == [json |-> "invalid"]
Bodies == {<<>>, <<Invalid>>} \cup {<<o>> : o \in Objects}
TrailingBodies == {<<o, Invalid>> : o \in Objects}
\* Objects in which the caller also names an id and a created_at, values the
\* Store hands out to nobody.
SuppliedBodies ==
    {<<[json |-> "object", name |-> o.name, email |-> o.email, id |-> 9, created_at |-> 9]>> :
        o \in Objects}

\* json.NewDecoder(r.Body).Decode(&req): reads the next JSON value of the
\* body into CreateUserRequest and looks at nothing that follows it; the end
\* of the input or text that is no JSON value is an error.
Decode(body) ==
    IF body = <<>> \/ Head(body).json # "object"
    THEN [err |-> TRUE, name |-> "", email |-> ""]
    ELSE [err |-> FALSE, name |-> Head(body).name, email |-> Head(body).email]

\* The variable user of the handler before the insert.  CreateUser of the
\* handlers package declares it, zero, and decodes the body into a
\* CreateUserRequest; createUser of backend/main.go, the service behind the
\* gorilla router, decodes the body into it, with the id and the created_at
\* the body names.
UserVar(body) ==
    IF router = "gorilla" /\ "id" \in DOMAIN Head(body)
    THEN [NoUser EXCEPT !.id = Head(body).id, !.created_at = Head(body).created_at]
    ELSE NoUser

\* QueryRow(...).Scan(&user.ID, &user.CreatedAt): the returned columns
\* overwrite the two fields of the destination.
Scan_KeepDest(dest, row) == dest
Scan(dest, row) == [dest EXCEPT !.id = row.id, !.created_at = row.created_at]

\* INSERT INTO users: the table with the new row.
InsertRow_Replace(rows, u) == <<u>>
InsertRow(rows, u) == Append(rows, u)

\* INSERT INTO users (name, email) VALUES ($1, $2) RETURNING id, created_at:
\* the outcomes of the round trip.  The sequence advances before the unique
\* index is checked, so a rejected insert consumes an id and leaves no row.
InsertReturning(name, email, up) ==
    IF ~(up /\ tableExists)
    THEN {[err |-> TRUE, msg |-> StoreErrMsg(up), user |-> NoUser, seq |-> seq, users |-> users]}
    ELSE IF seq >= MaxSeq THEN {}
    ELSE IF EmailTaken(email)
    THEN {[err |-> TRUE, msg |-> DuplicateMsg, user |-> NoUser, seq |-> seq + 1, users |-> users]}
    ELSE {[err |-> FALSE, msg |-> "", user |-> u, seq |-> seq + 1, users |-> InsertRow(users, u)] :
            u \in {[id |-> seq + 1, name |-> name, email |-> email, created_at |-> ts] :
                    ts \in CurrentTimestamps}}

\* "if err != nil" after the insert: the handler answers 500 and returns.
InsertFailed_Ignored(err) == FALSE
InsertFailed(err) == err

\* The key CreateUser deletes.
InvalidatedKey_Typo == "users"
InvalidatedKey == UsersAllKey

\* CreateUser, lines 69-85: decoding the body, then the insert.
CreateUser_InsertBody(p, body) ==
    \E up \in BOOLEAN :
    LET r == [op |-> "CreateUser", body |-> body]
        dec == Decode(body) IN
    /\ Begin(p)
    /\ IF dec.err
       THEN /\ Return(p, r, <<>>, HttpError("invalid character", StatusBadRequest))
            /\ UNCHANGED <<users, seq>>
       ELSE \E ins \in InsertReturning(dec.name, dec.email, up) :
            /\ users' = ins.users
            /\ seq' = ins.seq
            /\ IF InsertFailed(ins.err)
               THEN Return(p, r, <<Call("DB.QueryRow", ins.err)>>,
                           HttpError(ins.msg, StatusInternalServerError))
               ELSE Goto(p, "CreateUser_Del", r, <<Call("DB.QueryRow", ins.err)>>,
                         [NoLoc EXCEPT !.user = [Scan(UserVar(body), ins.user)
                                                    EXCEPT !.name = dec.name,
                                                           !.email = dec.email]])
    /\ UNCHANGED <<tableExists, cache, router>>

\* CreateUser on a body of one JSON text or none.
CreateUser_Insert(p) == \E body \in Bodies : CreateUser_InsertBody(p, body)

\* CreateUser on a body that goes on after its first JSON value.
CreateUser_InsertTrailing(p) == \E body \in TrailingBodies : CreateUser_InsertBody(p, body)

\* CreateUser on a body that names an id and a created_at.
CreateUser_InsertSupplied(p) == \E body \in SuppliedBodies : CreateUser_InsertBody(p, body)

\* CreateUser, lines 87-88: the invalidation, its result ignored.
CreateUser_Del(p) ==
    \E up \in BOOLEAN :
    /\ pc[p] = "CreateUser_Del"
    /\ cache' = RDBDel(InvalidatedKey, up)
    /\ Goto(p, "CreateUser_Encode", req[p], Append(calls[p], Call("RDB.Del", ~up)), loc[p])
    /\ UNCHANGED <<storeVars, router, follows>>

\* CreateUser, line 90: the response, written after the invalidation; other
\* handlers run between the two.
CreateUser_Encode(p) ==
    /\ pc[p] = "CreateUser_Encode"
    /\ UNCHANGED <<storeVars, cache, router, follows>>
    /\ Return(p, req[p], calls[p], [status |-> StatusOK, body |-> Encode(UserJSON(loc[p].user))])

\* GetUser, lines 96-108: the path variable, then the cache lookup.
GetUser_Get(p) ==
    \E seg \in IdParams, up \in BOOLEAN :
    LET r == [op |-> "GetUser", seg |-> seg]
        id == Atoi(MuxVarsId(seg))
        cachedUser == RDBGet(UserKey(id.val), up)
        cs == <<Call("RDB.Get", cachedUser.err)>> IN
    /\ Begin(p)
    /\ IF id.err
       THEN Return(p, r, <<>>, HttpError("Invalid user ID", StatusBadRequest))
       ELSE IF CacheHit(cachedUser)
       THEN Return(p, r, cs, [status |-> StatusOK, body |-> cachedUser.val])
       ELSE Goto(p, "GetUser_Query", r, cs, [NoLoc EXCEPT !.id = id.val])
    /\ UNCHANGED <<storeVars, cache, router>>

\* GetUser, lines 110-120: the single-row query; sql.ErrNoRows is the 404.
GetUser_Query(p) ==
    \E up \in BOOLEAN :
    /\ pc[p] = "GetUser_Query"
    /\ UNCHANGED <<storeVars, cache, router, follows>>
    /\ IF ~(up /\ tableExists)
       THEN Return(p, req[p], Append(calls[p], Call("DB.QueryRow", TRUE)),
                   HttpError(StoreErrMsg(up), StatusInternalServerError))
       ELSE IF SelectById(loc[p].id) = {}
       THEN Return(p, req[p], Append(calls[p], Call("DB.QueryRow", TRUE)),
                   HttpError("User not found", StatusNotFound))
       ELSE Goto(p, "GetUser_Set", req[p], Append(calls[p], Call("DB.QueryRow", FALSE)),
                 [loc[p] EXCEPT !.user = CHOOSE u \in SelectById(loc[p].id) : TRUE])

\* GetUser, lines 122-125: the write-back with the fixed expiry, then the response.
GetUser_Set(p) ==
    \E up \in BOOLEAN :
    /\ pc[p] = "GetUser_Set"
    /\ UNCHANGED <<storeVars, router, follows>>
    /\ cache' = RDBSet(UserKey(loc[p].id), Marshal(UserJSON(loc[p].user)), TTL, up)
    /\ Return(p, req[p], Append(calls[p], Call("RDB.Set", ~up)),
              [status |-> StatusOK, body |-> Encode(UserJSON(loc[p].user))])

\* -------------------------------------------------------------- environment
\* initDB of another instance, one that starts while the Store answers,
\* creates the table.  A running instance never runs initDB again.
InitDB ==
    /\ ~tableExists
    /\ tableExists' = TRUE
    /\ UNCHANGED <<users, seq, cache, router, reqVars>>

\* Time passes; Redis drops the keys whose time to live is used up.
Tick ==
    /\ DOMAIN cache # {}
    /\ cache' = [k \in {j \in DOMAIN cache : cache[j].ttl > TickMinutes} |->
                    [cache[k] EXCEPT !.ttl = @ - TickMinutes]]
    /\ UNCHANGED <<storeVars, router, reqVars>>

\* The instance is serving: its initDB has returned.  It created the table
\* when its ping succeeded; when the ping failed it skipped CREATE TABLE and
\* left the Store as it was, with the table of an earlier start or without.
Init ==
    /\ users = <<>>
    /\ seq = 0
    /\ tableExists \in BOOLEAN
    /\ cache = <<>>
    /\ router \in {"gorilla", "servemux"}
    /\ pc = [p \in Procs |-> "idle"]
    /\ req = [p \in Procs |-> NoReq]
    /\ loc = [p \in Procs |-> NoLoc]
    /\ calls = [p \in Procs |-> <<>>]
    /\ follows = [p \in Procs |-> FALSE]
    /\ last = NoLast

Next ==
    \/ \E p \in Procs : GetUsers_Get(p)
    \/ \E p \in Procs : GetUsers_Query(p)
    \/ \E p \in Procs : GetUsers_Set(p)
    \/ \E p \in Procs : CreateUser_Insert(p)
    \/ \E p \in Procs : CreateUser_Del(p)
    \/ \E p \in Procs : CreateUser_Encode(p)
    \/ \E p \in Procs : GetUser_Get(p)
    \/ \E p \in Procs : GetUser_Query(p)
    \/ \E p \in Procs : GetUser_Set(p)
    \/ InitDB
    \/ Tick

Spec == Init /\ [][Next]_vars

\* ------------------------------------------------------------------- health
\* models.HealthResponse with its four json tags; the timestamp is the
\* instance's clock at the response.
HealthJSON(dbStatus, redisStatus) ==
    [json |-> "object", status |-> "healthy", database |-> dbStatus,
     redis |-> redisStatus, timestamp |-> "time.Now"]

\* dbStatus / redisStatus after a ping.
PingStatus_AlwaysConnected(err) == "connected"
PingStatus(err) == IF err THEN "disconnected" ELSE "connected"

\* HealthHandler.ServeHTTP, lines 30-35: the Store ping.
Health_PingDB(p) ==
    \E up \in BOOLEAN :
    /\ Begin(p)
    /\ Goto(p, "Health_PingRedis", [op |-> "Health"], <<Call("DB.Ping", ~up)>>, NoLoc)
    /\ UNCHANGED <<storeVars, cache, router>>

\* HealthHandler.ServeHTTP, lines 37-49: the cache ping, then the response.
Health_PingRedis(p) ==
    \E up \in BOOLEAN :
    /\ pc[p] = "Health_PingRedis"
    /\ UNCHANGED <<storeVars, cache, router, follows>>
    /\ Return(p, req[p], Append(calls[p], Call("RDB.Ping", ~up)),
              [status |-> StatusOK,
               body |-> Encode(HealthJSON(PingStatus(calls[p][1].err), PingStatus(~up)))])

\* The kubelet's httpGet probe of /health (readinessProbe and livenessProbe
\* alike): a status from 200 to 399 is a success.
ProbeSucceeds(w) == w.status >= 200 /\ w.status < 400

\* ------------------------------------------------------------------- stress
\* models.StressTestResponse with its three json tags.
StressJSON(result, iterations) ==
    [json |-> "object", message |-> "Stress test completed", result |-> result,
     iterations |-> iterations]

\* result := 0, a local of the handler.
ResultInit_Shared == seq
ResultInit == 0

\* StressHandler.ServeHTTP, lines 18-19: iterations and result := 0, i := 0.
Stress_Init(p) ==
    /\ Begin(p)
    /\ Goto(p, "Stress_Loop", [op |-> "Stress"], <<>>,
            [NoLoc EXCEPT !.i = 0, !.result = ResultInit])
    /\ UNCHANGED <<storeVars, cache, router>>

\* result += i
LoopStep_OffByOne(result, i) == result + i + 1
LoopStep(result, i) == result + i

\* i < iterations
LoopCond_Inclusive(i) == i <= Iterations
LoopCond(i) == i < Iterations

\* i++
Incr_Stuck(i) == i
Incr(i) == i + 1

\* StressHandler.ServeHTTP, lines 20-22: one step of the loop.
Stress_Loop(p) ==
    /\ pc[p] = "Stress_Loop"
    /\ LoopCond(loc[p].i)
    /\ Goto(p, "Stress_Loop", req[p], calls[p],
            [loc[p] EXCEPT !.result = LoopStep(@, loc[p].i), !.i = Incr(@)])
    /\ UNCHANGED <<storeVars, cache, router, follows>>

\* StressHandler.ServeHTTP, lines 20 and 24-31: the loop ends, the response.
Stress_Encode(p) ==
    /\ pc[p] = "Stress_Loop"
    /\ ~LoopCond(loc[p].i)
    /\ UNCHANGED <<storeVars, cache, router, follows>>
    /\ Return(p, req[p], calls[p],
              [status |-> StatusOK, body |-> Encode(StressJSON(loc[p].result, Iterations))])

\* The service that main of part_003 assembles: the user handlers, health and
\* stress behind http.NewServeMux.  Behind that router GetUser returns at its
\* line 100 on every request, so its query and write-back are no steps here.
ServiceInit == Init /\ router = "servemux"

ServiceNext ==
    \/ \E p \in Procs : GetUsers_Get(p)
    \/ \E p \in Procs : GetUsers_Query(p)
    \/ \E p \in Procs : GetUsers_Set(p)
    \/ \E p \in Procs : CreateUser_Insert(p)
    \/ \E p \in Procs : CreateUser_Del(p)
    \/ \E p \in Procs : CreateUser_Encode(p)
    \/ \E p \in Procs : GetUser_Get(p)
    \/ \E p \in Procs : Health_PingDB(p)
    \/ \E p \in Procs : Health_PingRedis(p)
    \/ \E p \in Procs : Stress_Init(p)
    \/ \E p \in Procs : Stress_Loop(p)
    \/ \E p \in Procs : Stress_Encode(p)
    \/ InitDB
    \/ Tick

ServiceSpec == ServiceInit /\ [][ServiceNext]_vars

\* The steps of a handler that is running on goroutine p.  The Go scheduler
\* lets every runnable goroutine run, and every Store and Cache call returns.
HandlerStep(p) ==
    \/ GetUsers_Query(p) \/ GetUsers_Set(p)
    \/ CreateUser_Del(p) \/ CreateUser_Encode(p)
    \/ GetUser_Query(p) \/ GetUser_Set(p)
    \/ Health_PingRedis(p)
    \/ Stress_Loop(p) \/ Stress_Encode(p)

\* The five handlers behind the gorilla router, serving a burst of requests:
\* no instance starts and no cache entry expires while it lasts.
HandlersInit == Init /\ router = "gorilla"

HandlersNext ==
    \/ \E p \in Procs : GetUsers_Get(p)
    \/ \E p \in Procs : GetUsers_Query(p)
    \/ \E p \in Procs : GetUsers_Set(p)
    \/ \E p \in Procs : CreateUser_Insert(p)
    \/ \E p \in Procs : CreateUser_Del(p)
    \/ \E p \in Procs : CreateUser_Encode(p)
    \/ \E p \in Procs : GetUser_Get(p)
    \/ \E p \in Procs : GetUser_Query(p)
    \/ \E p \in Procs : GetUser_Set(p)
    \/ \E p \in Procs : Health_PingDB(p)
    \/ \E p \in Procs : Health_PingRedis(p)
    \/ \E p \in Procs : Stress_Init(p)
    \/ \E p \in Procs : Stress_Loop(p)
    \/ \E p \in Procs : Stress_Encode(p)

HandlersSpec == HandlersInit /\ [][HandlersNext]_vars

\* The same, with every running handler scheduled.
FairHandlersSpec == HandlersSpec /\ \A p \in Procs : WF_vars(HandlerStep(p))

\* The handlers of the collection, GetUsers and CreateUser, behind the router
\* of part_003, their clients sending every kind of body.
CollectionInit == Init /\ router = "servemux"

CollectionNext ==
    \/ \E p \in Procs : GetUsers_Get(p)
    \/ \E p \in Procs : GetUsers_Query(p)
    \/ \E p \in Procs : GetUsers_Set(p)
    \/ \E p \in Procs : CreateUser_Insert(p)
    \/ \E p \in Procs : CreateUser_InsertTrailing(p)
    \/ \E p \in Procs : CreateUser_Del(p)
    \/ \E p \in Procs : CreateUser_Encode(p)
    \/ InitDB
    \/ Tick

CollectionSpec == CollectionInit /\ [][CollectionNext]_vars

\* The same, with every running handler scheduled and the cache's clock going.
FairCollectionSpec ==
    CollectionSpec /\ WF_vars(Tick) /\ \A p \in Procs : WF_vars(HandlerStep(p))

\* CreateUser of both services and the reads of the collection, the clients
\* also sending bodies that name an id and a created_at.
CreateNext ==
    \/ \E p \in Procs : GetUsers_Get(p)
    \/ \E p \in Procs : GetUsers_Query(p)
    \/ \E p \in Procs : GetUsers_Set(p)
    \/ \E p \in Procs : CreateUser_Insert(p)
    \/ \E p \in Procs : CreateUser_InsertSupplied(p)
    \/ \E p \in Procs : CreateUser_Del(p)
    \/ \E p \in Procs : CreateUser_Encode(p)
    \/ InitDB

CreateSpec == Init /\ [][CreateNext]_vars

\* =================================================================== claims
Rows == {users[i] : i \in 1..Len(users)}

\* The users of a response body that is a JSON array.
BodyUsers(body) ==
    IF Len(body) > 0 /\ body[1].json = "array"
    THEN {body[1].elems[i] : i \in DOMAIN body[1].elems}
    ELSE {}

\* The calls, after the step, of the request p has been serving in it.
CallsAfter(p) == IF pc'[p] = "idle" THEN last'.calls ELSE calls'[p]
\* The request p has been serving in the step.
ReqAfter(p) == IF pc'[p] = "idle" THEN last'.req ELSE req'[p]

\* The step is the first of handler op on goroutine p.  Both conjuncts follow
\* from the handler's first action; they are stated ahead of it so that the
\* action is evaluated on its own steps only.
Starts(p, op) == Idle(p) /\ ReqAfter(p).op = op

\* The step is one of the handler that p runs, and the handler returns in it.
GetUsersReturns(p) ==
    /\ pc'[p] = "idle" /\ last'.req.op = "GetUsers"
    /\ GetUsers_Get(p) \/ GetUsers_Query(p) \/ GetUsers_Set(p)
GetUserReturns(p) ==
    /\ pc'[p] = "idle" /\ last'.req.op = "GetUser"
    /\ GetUser_Get(p) \/ GetUser_Query(p) \/ GetUser_Set(p)

CreateOK(l) == l.req.op = "CreateUser" /\ l.resp.status = StatusOK
DelOK(l) == Len(l.calls) = 2 /\ l.calls[2] = Call("RDB.Del", FALSE)
IsStoreDown(w) ==
    \E up \in BOOLEAN : w = HttpError(StoreErrMsg(up), StatusInternalServerError)

C2_ReadYourWrites ==
    [][\A p \in Procs :
        /\ GetUsersReturns(p)
        /\ follows'[p]
        /\ CreateOK(last) /\ DelOK(last) /\ last.alone
        /\ last'.resp.status = StatusOK
        /\ \A i \in 1..Len(last'.calls) :
              last'.calls[i].call = "RDB.Set" => ~last'.calls[i].err
        => last.resp.body[1] \in BodyUsers(last'.resp.body)]_vars

\* C3: with the Store answering, Read-collection, Read-by-identity of an
\* existing id and Create of a new address succeed whatever the cache calls do.
C3_CacheFaultsInvisible ==
    [][\A p \in Procs :
        /\ GetUsersReturns(p)
            => last'.resp.status = StatusOK \/ IsStoreDown(last'.resp)
        /\ GetUserReturns(p) /\ ~Atoi(last'.req.seg).err
                /\ SelectById(Atoi(last'.req.seg).val) # {}
            => last'.resp.status = StatusOK \/ IsStoreDown(last'.resp)
        /\ Starts(p, "CreateUser") /\ CreateUser_Insert(p) /\ pc'[p] = "idle"
                /\ ~Decode(last'.req.body).err
                /\ ~EmailTaken(Decode(last'.req.body).email)
            => IsStoreDown(last'.resp)
        /\ CreateUser_Del(p) => pc'[p] = "CreateUser_Encode"
        /\ CreateUser_Encode(p) => last'.resp.status = StatusOK]_vars

\* C4: every cached value is the serialization of a complete Store result:
\* users:all holds the whole table as it stood at one instant (its first n
\* rows, newest first), user:<id> holds the row of that id.
C4_CacheMirrorsStore ==
    \A k \in DOMAIN cache :
        IF k = UsersAllKey
        THEN \E n \in 0..Len(users) :
                \E snapshot \in OrderedByCreatedAtDesc(SubSeq(users, 1, n)) :
                    cache[k].val = Marshal(UsersJSON(snapshot))
        ELSE \E u \in Rows :
                k = UserKey(u.id) /\ cache[k].val = Marshal(UserJSON(u))

\* C5: a read that repeats the read before it, with the key still cached
\* and no cache call failing, is served without a Store query and returns
\* the same bytes as the read before it.
C5_ReadsIdempotent ==
    [][\A p \in Procs :
        /\ Idle(p) /\ pc'[p] = "idle" /\ last'.req.op \in {"GetUsers", "GetUser"}
        /\ GetUsers_Get(p) \/ GetUser_Get(p)
        /\ follows'[p]
        /\ last'.req = last.req
        /\ last.resp.status = StatusOK /\ last'.resp.status = StatusOK
        /\ \A i \in 1..Len(last.calls) :
              last.calls[i].call = "RDB.Set" => ~last.calls[i].err
        => /\ last'.resp.body = last.resp.body
           /\ last'.calls = <<Call("RDB.Get", FALSE)>>]_vars

\* C6: a lookup that the cache answers with the key present returns the
\* cached value unchanged, and the request makes no other call and changes
\* neither cache nor Store.
C6_HitServedFromCache ==
    [][\A p \in Procs :
        /\ Starts(p, "GetUsers") /\ GetUsers_Get(p)
                /\ UsersAllKey \in DOMAIN cache /\ ~CallsAfter(p)[1].err
            => /\ pc'[p] = "idle"
               /\ last'.resp = [status |-> StatusOK, body |-> cache[UsersAllKey].val]
               /\ last'.calls = <<Call("RDB.Get", FALSE)>>
               /\ cache' = cache /\ users' = users /\ seq' = seq
        /\ Starts(p, "GetUser") /\ GetUser_Get(p)
                /\ CallsAfter(p) # <<>> /\ ~CallsAfter(p)[1].err
            => /\ pc'[p] = "idle"
               /\ last'.resp = [status |-> StatusOK,
                                body |-> cache[UserKey(Atoi(last'.req.seg).val)].val]
               /\ last'.calls = <<Call("RDB.Get", FALSE)>>
               /\ cache' = cache /\ users' = users /\ seq' = seq]_vars

\* C6 witness: the latest response is a Read-by-identity served by a hit.
C6_Witness ==
    /\ last.req.op = "GetUser"
    /\ last.calls = <<Call("RDB.Get", FALSE)>>
    /\ last.resp.status = StatusOK

\* C7: no step of a Create whose insert failed changes the cache, and such a
\* Create makes no cache call.
C7_FailedCreateLeavesCache ==
    [][\A p \in Procs :
        /\ Starts(p, "CreateUser") /\ CreateUser_Insert(p)
                /\ (CallsAfter(p) = <<>> \/ CallsAfter(p)[1].err)
            => cache' = cache /\ Len(CallsAfter(p)) <= 1
        /\ CreateUser_Del(p) /\ calls[p][1].err => cache' = cache]_vars

\* C7 witness: a Create has just failed in the Store while users:all is cached.
C7_Witness ==
    /\ last.req.op = "CreateUser"
    /\ last.calls = <<Call("DB.QueryRow", TRUE)>>
    /\ UsersAllKey \in DOMAIN cache

\* C8: a Create that is about to delete users:all, or has called RDB.Del,
\* made exactly one call before it, its insert, and the row is in the Store.
C8_InsertBeforeInvalidate ==
    /\ \A p \in Procs : pc[p] = "CreateUser_Del"
        => calls[p] = <<Call("DB.QueryRow", FALSE)>> /\ loc[p].user \in Rows
    /\ \A p \in Procs : \A i \in 1..Len(calls[p]) : calls[p][i].call = "RDB.Del"
        => /\ i = 2
           /\ calls[p][1] = Call("DB.QueryRow", FALSE)
           /\ loc[p].user \in Rows
    /\ \A i \in 1..Len(last.calls) : last.calls[i].call = "RDB.Del"
        => /\ i = 2
           /\ last.calls[1] = Call("DB.QueryRow", FALSE)
           /\ \E u \in Rows : last.resp.body = Encode(UserJSON(u))

\* C8 witness: a Create has inserted and is about to delete a cached users:all.
C8_Witness ==
    \E p \in Procs : pc[p] = "CreateUser_Del" /\ UsersAllKey \in DOMAIN cache

\* C9: a Create that the Store rejects for its duplicate address answers 409.
C9_DuplicateIsConflict ==
    [][\A p \in Procs :
        /\ Starts(p, "CreateUser") /\ CreateUser_Insert(p)
        /\ ~Decode(ReqAfter(p).body).err
        /\ EmailTaken(Decode(ReqAfter(p).body).email)
        /\ seq' # seq
        => pc'[p] = "idle" /\ last'.resp.status = 409]_vars

\* C10: no two rows share an address; a Create of a taken address fails, a
\* Create that fails leaves the rows as they were, and a Create that
\* succeeds adds exactly its own row.
UniqueEmails == \A i, j \in 1..Len(users) : users[i].email = users[j].email => i = j
C10_UniqueAddress ==
    /\ []UniqueEmails
    /\ [][\A p \in Procs : Starts(p, "CreateUser") /\ CreateUser_Insert(p) =>
            /\ pc'[p] = "idle" => users' = users /\ last'.resp.status # StatusOK
            /\ ~Decode(ReqAfter(p).body).err /\ EmailTaken(Decode(ReqAfter(p).body).email)
                => pc'[p] = "idle"
            /\ pc'[p] # "idle" =>
                /\ Len(users') = Len(users) + 1
                /\ SubSeq(users', 1, Len(users)) = users
                /\ users'[Len(users')].email = Decode(req'[p].body).email]_vars

\* C10 witness: the Store has just rejected a Create for its duplicate address.
C10_Witness ==
    /\ last.req.op = "CreateUser"
    /\ last.resp = HttpError(DuplicateMsg, StatusInternalServerError)
    /\ Len(users) >= 1

\* C11: the entity a Create returns is the row it inserted, and every
\* Read-by-identity of the id of a row, answered by the Store or by the
\* cache, returns that row in all four fields, whatever ran in between.
C11_CreateThenReadById ==
    [][\A p \in Procs :
        /\ CreateUser_Encode(p)
            => \E u \in Rows : last'.resp.body = Encode(UserJSON(u))
        /\ GetUserReturns(p) /\ ~Atoi(last'.req.seg).err
                /\ SelectById(Atoi(last'.req.seg).val) # {}
            => \/ IsStoreDown(last'.resp)
               \/ /\ last'.resp.status = StatusOK
                  /\ \E u \in SelectById(Atoi(last'.req.seg).val) :
                        last'.resp.body[1] = UserJSON(u)]_vars

\* C12: a successful Create answers 201 with the submitted name and address
\* and the id and timestamp of the row its insert added.
C12_CreateAnswers201 ==
    [][\A p \in Procs : CreateUser_Encode(p) =>
        /\ last'.resp.status = 201
        /\ \E u \in Rows :
            /\ last'.resp.body = Encode(UserJSON(u))
            /\ u.name = Decode(last'.req.body).name /\ u.email = Decode(last'.req.body).email]_vars

\* C13: a Read-by-identity of a well-formed id that has no row answers 404
\* (or 500 when the Store fails) and leaves the cache as it was, and the
\* cache holds no entry for an id that has no row.
NoEntryWithoutRow ==
    \A k \in DOMAIN cache : k = UsersAllKey \/ \E u \in Rows : k = UserKey(u.id)
C13_NotFoundNotCached ==
    /\ []NoEntryWithoutRow
    /\ [][\A p \in Procs :
            /\ GetUserReturns(p) /\ ~Atoi(last'.req.seg).err
            /\ SelectById(Atoi(last'.req.seg).val) = {}
            => /\ last'.resp = HttpError("User not found", StatusNotFound)
                    \/ IsStoreDown(last'.resp)
               /\ cache' = cache]_vars

\* C14: a request whose Store call failed, the reading of the result rows
\* included, has returned at once with a server error (404 when the Store
\* answered a Read-by-identity with no row) and has made no cache write; no
\* request makes more than one Store query.
StoreQueries(cs) == {i \in 1..Len(cs) : cs[i].call \in {"DB.Query", "DB.QueryRow"}}
StoreFailures(cs) ==
    {i \in 1..Len(cs) : cs[i].call \in {"DB.Query", "DB.QueryRow", "rows.Next"} /\ cs[i].err}
CacheWrites(cs) == {i \in 1..Len(cs) : cs[i].call \in {"RDB.Set", "RDB.Del"}}
C14_StoreErrorsSurfaced ==
    /\ \A p \in Procs :
        /\ StoreFailures(calls[p]) = {}
        /\ Cardinality(StoreQueries(calls[p])) <= 1
    /\ Cardinality(StoreQueries(last.calls)) <= 1
    /\ StoreFailures(last.calls) # {}
        => /\ \/ last.resp.status = StatusInternalServerError
              \/ last.req.op = "GetUser"
                    /\ last.resp = HttpError("User not found", StatusNotFound)
           /\ CacheWrites(last.calls) = {}

\* C15: an entry lives for at most TTL minutes after its write: its time to
\* live is never above TTL, only RDB.Set gives a key a new one, a hit leaves
\* it alone, and the clock takes TickMinutes off every entry and removes
\* the entries that have no more; and a Read-collection that queries the
\* Store after a Create committed writes back a snapshot with the new row,
\* so that a snapshot without it is no younger than the commit.
TTLInRange == \A k \in DOMAIN cache : cache[k].ttl \in 1..TTL
Elems(sq) == {sq[i] : i \in 1..Len(sq)}
C15_StalenessBoundedByTTL ==
    /\ []TTLInRange
    /\ [][
        /\ \A k \in DOMAIN cache' :
            \/ k \in DOMAIN cache /\ cache'[k].ttl <= cache[k].ttl
            \/ /\ cache'[k].ttl = TTL
               /\ \E p \in Procs : pc[p] \in {"GetUsers_Set", "GetUser_Set"}
                    /\ pc'[p] = "idle"
        /\ \A p \in Procs :
            (Idle(p) /\ pc'[p] = "idle" /\ last'.calls = <<Call("RDB.Get", FALSE)>>
                    /\ (GetUsers_Get(p) \/ GetUser_Get(p)))
                => cache' = cache
        /\ (cache' # cache /\ Tick)
            => \A k \in DOMAIN cache :
                IF cache[k].ttl > TickMinutes
                THEN k \in DOMAIN cache' /\ cache'[k].ttl = cache[k].ttl - TickMinutes
                ELSE k \notin DOMAIN cache'
        /\ \A p \in Procs :
            (pc[p] = "GetUsers_Query" /\ pc'[p] = "GetUsers_Set" /\ GetUsers_Query(p))
                => Rows \subseteq Elems(loc'[p].users)
       ]_vars

\* C16: the health handler never fails on a ping: whatever the two pings
\* return it answers 200 with status "healthy", database "connected" exactly
\* when the Store ping returned no error and redis "connected" exactly when
\* the cache ping returned none.
C16_HealthAlwaysHealthy ==
    [][\A p \in Procs :
        /\ Starts(p, "Health") /\ Health_PingDB(p) => pc'[p] = "Health_PingRedis"
        /\ pc[p] = "Health_PingRedis" /\ Health_PingRedis(p) =>
            /\ pc'[p] = "idle"
            /\ last'.calls[1].call = "DB.Ping" /\ last'.calls[2].call = "RDB.Ping"
            /\ last'.resp.status = StatusOK
            /\ last'.resp.body[1].status = "healthy"
            /\ last'.resp.body[1].database = "connected" <=> ~last'.calls[1].err
            /\ last'.resp.body[1].database \in {"connected", "disconnected"}
            /\ last'.resp.body[1].redis = "connected" <=> ~last'.calls[2].err
            /\ last'.resp.body[1].redis \in {"connected", "disconnected"}]_vars

\* C16 witness: health has just answered with both dependencies down.
C16_Witness ==
    /\ last.req.op = "Health"
    /\ last.calls = <<Call("DB.Ping", TRUE), Call("RDB.Ping", TRUE)>>
    /\ last.resp = [status |-> StatusOK,
                    body |-> Encode(HealthJSON("disconnected", "disconnected"))]

\* C17: the probe of /health, which is the readiness and the liveness probe
\* of the backend Deployment, succeeds as a liveness probe whatever the
\* pings return, and fails as a readiness probe when the Store ping failed.
C17_ReadinessFollowsStore ==
    [][\A p \in Procs : pc[p] = "Health_PingRedis" /\ Health_PingRedis(p) =>
        /\ last'.calls[1].err => ~ProbeSucceeds(last'.resp)
        /\ ~last'.calls[1].err => ProbeSucceeds(last'.resp)]_vars

\* Naturals beyond the model checker's integers, as their base-10000 digits,
\* least significant first and without leading zeros (zero is <<>>).
RECURSIVE Limbs(_)
Limbs(n) == IF n = 0 THEN <<>> ELSE <<n % 10000>> \o Limbs(n \div 10000)
RECURSIVE Carry(_, _)
Carry(digits, c) ==
    IF digits = <<>> THEN Limbs(c)
    ELSE <<(Head(digits) + c) % 10000>> \o Carry(Tail(digits), (Head(digits) + c) \div 10000)
RECURSIVE SumTo(_, _)
SumTo(f, n) == IF n = 0 THEN 0 ELSE f[n] + SumTo(f, n - 1)
Times(a, b) ==
    IF a = <<>> \/ b = <<>> THEN <<>>
    ELSE Carry([k \in 1..(Len(a) + Len(b) - 1) |->
                SumTo([i \in 1..Len(a) |->
                        IF k - i + 1 \in 1..Len(b) THEN a[i] * b[k - i + 1] ELSE 0],
                      Len(a))], 0)
RECURSIVE Trim(_)
Trim(a) == IF a # <<>> /\ a[Len(a)] = 0 THEN Trim(SubSeq(a, 1, Len(a) - 1)) ELSE a
RECURSIVE HalfFrom(_, _, _)
HalfFrom(a, k, rem) ==
    IF k = 0 THEN <<>>
    ELSE HalfFrom(a, k - 1, (rem * 10000 + a[k]) % 2) \o <<(rem * 10000 + a[k]) \div 2>>
Half(a) == Trim(HalfFrom(a, Len(a), 0))
\* 0 + 1 + ... + (n - 1)
SumBelow(n) == IF n = 0 THEN <<>> ELSE Half(Times(Limbs(n), Limbs(n - 1)))

\* C18: after k steps of the loop the accumulator is k*(k-1)/2; the response
\* carries the sum of 0..iterations-1 and the iteration count, the same on
\* every call; and for the handler's 100000000 iterations that sum is
\* 4999999950000000.
C18_RunLoadSum ==
    /\ \A p \in Procs : pc[p] = "Stress_Loop" =>
        /\ loc[p].i \in 0..Iterations
        /\ 2 * loc[p].result = loc[p].i * (loc[p].i - 1)
        /\ Limbs(loc[p].result) = SumBelow(loc[p].i)
    /\ last.req.op = "Stress" =>
        /\ last.resp = [status |-> StatusOK,
                        body |-> Encode(StressJSON((Iterations * (Iterations - 1)) \div 2,
                                                   Iterations))]
        /\ Limbs(last.resp.body[1].result) = SumBelow(last.resp.body[1].iterations)
    /\ SumBelow(CodeIterations) = <<0, 5000, 9999, 4999>>

\* C18 witness: a stress request has answered after its last loop step.
C18_Witness ==
    /\ last.req.op = "Stress"
    /\ last.resp.body[1].iterations = Iterations
    /\ last.resp.body[1].result > 0

\* C19: a step of the stress handler leaves the Store, the cache and every
\* other request as they are, no step of another request changes the
\* locals of a running stress handler, and its response is the one of a
\* call that runs alone.
StressStep(p) == Stress_Init(p) \/ Stress_Loop(p) \/ Stress_Encode(p)
C19_RunLoadSharesNothing ==
    [][\A p \in Procs :
        /\ (ReqAfter(p).op = "Stress" /\ StressStep(p)) =>
            /\ UNCHANGED <<users, seq, tableExists, cache>>
            /\ \A q \in Procs \ {p} :
                  pc'[q] = pc[q] /\ req'[q] = req[q] /\ loc'[q] = loc[q]
                    /\ calls'[q] = calls[q]
            /\ pc'[p] = "idle" =>
                  last'.resp = [status |-> StatusOK,
                                body |-> Encode(StressJSON(
                                    (Iterations * (Iterations - 1)) \div 2, Iterations))]
        /\ (pc[p] = "Stress_Loop" /\ loc'[p] # loc[p]) => StressStep(p)]_vars

\* C19 witness: two stress handlers are halfway through their loops while
\* rows and a cached collection exist.
C19_Witness ==
    /\ \A p \in Procs : pc[p] = "Stress_Loop" /\ loc[p].i \in 1..(Iterations - 1)
    /\ Len(users) > 0
    /\ UsersAllKey \in DOMAIN cache

\* C20: a Read-collection that goes to the Store reads every row of the
\* table exactly once, newest first, and answers 200 with exactly the rows
\* it read, in that order.
C20_NewestFirstAndComplete ==
    [][\A p \in Procs :
        /\ (pc[p] = "GetUsers_Query" /\ pc'[p] = "GetUsers_Set" /\ GetUsers_Query(p)) =>
            /\ Len(loc'[p].users) = Len(users)
            /\ Elems(loc'[p].users) = Rows
            /\ \A i \in 1..(Len(loc'[p].users) - 1) :
                  loc'[p].users[i].created_at >= loc'[p].users[i + 1].created_at
        /\ (pc[p] = "GetUsers_Set" /\ GetUsers_Set(p)) =>
            last'.resp = [status |-> StatusOK, body |-> Encode(UsersJSON(loc[p].users))]]_vars

\* C21 (as claimed): a Read-collection that returns while the table has no
\* row answers 200 with an empty JSON array, from the Store and from the cache.
C21_EmptyIsEmptySequence ==
    [][\A p \in Procs :
        (GetUsersReturns(p) /\ Len(users) = 0 /\ ~IsStoreDown(last'.resp)) =>
            /\ last'.resp.status = StatusOK
            /\ last'.resp.body[1] = [json |-> "array", elems |-> <<>>]]_vars

\* C21 (amended): a Read-collection that returns while the table has no row
\* answers 200 with the JSON value null, the serialization of the nil slice:
\* followed by a newline when the Store was queried, without one when the
\* cache answered.
C21_EmptyIsNull ==
    [][\A p \in Procs :
        (GetUsersReturns(p) /\ Len(users) = 0 /\ ~IsStoreDown(last'.resp)) =>
            /\ last'.resp.status = StatusOK
            /\ last'.resp.body =
                    IF last'.calls = <<Call("RDB.Get", FALSE)>>
                    THEN Marshal([json |-> "null"])
                    ELSE Encode([json |-> "null"])]_vars

\* C21 witness: the cache has just answered a Read-collection with the
\* collection of the empty table.
C21_Witness ==
    /\ last.req.op = "GetUsers"
    /\ last.calls = <<Call("RDB.Get", FALSE)>>
    /\ last.resp = [status |-> StatusOK, body |-> Marshal([json |-> "null"])]
    /\ Len(users) = 0

\* C22: a Create whose body is not one JSON object answers 400 having made
\* no Store and no cache call, and leaves the table, the sequence and the
\* cache as they were.
WellFormed(body) == Len(body) = 1 /\ body[1].json = "object"
CreateStarts(p) ==
    /\ Starts(p, "CreateUser")
    /\ CreateUser_Insert(p) \/ CreateUser_InsertTrailing(p) \/ CreateUser_InsertSupplied(p)
C22_MalformedBodyTouchesNothing ==
    [][\A p \in Procs :
        (CreateStarts(p) /\ ~WellFormed(ReqAfter(p).body)) =>
            /\ pc'[p] = "idle"
            /\ last'.resp.status = StatusBadRequest
            /\ last'.calls = <<>>
            /\ UNCHANGED <<users, seq, tableExists, cache>>]_vars

\* C23: a Read-by-identity whose path segment is no integer answers 400
\* having made no cache and no Store call, and one whose path segment is an
\* integer is never answered with 400.
C23_BadRequestIffNotInteger ==
    [][\A p \in Procs :
        /\ (Starts(p, "GetUser") /\ GetUser_Get(p) /\ Atoi(ReqAfter(p).seg).err) =>
            /\ pc'[p] = "idle"
            /\ last'.resp.status = StatusBadRequest
            /\ last'.calls = <<>>
        /\ (GetUserReturns(p) /\ ~Atoi(last'.req.seg).err) =>
            last'.resp.status # StatusBadRequest]_vars

\* C24: no two rows share an id; every step leaves the rows that are in the
\* table where they are and as they are; and a step that changes the table
\* is the insert of a Create, which adds one row.
UniqueIds == \A i, j \in 1..Len(users) : users[i].id = users[j].id => i = j
C24_StoreOnlyGrows ==
    /\ []UniqueIds
    /\ [][
        /\ Len(users') >= Len(users)
        /\ SubSeq(users', 1, Len(users)) = users
        /\ users' # users =>
            /\ Len(users') = Len(users) + 1
            /\ \E p \in Procs : CreateStarts(p) /\ pc'[p] = "CreateUser_Del"
       ]_vars

\* C24 witness: the second Create has answered, and both rows are in the table.
C24_Witness ==
    /\ Len(users) = 2
    /\ CreateOK(last)
    /\ last.resp.body = Encode(UserJSON(users[2]))

\* C25: a handler that is running can take its next step whatever the other
\* goroutines are doing, and every goroutine is idle again and again: each
\* request it serves comes to its response.
NoWaiting == \A p \in Procs : InFlight(p) => ENABLED HandlerStep(p)
C25_EveryRequestCompletes ==
    /\ []NoWaiting
    /\ \A p \in Procs : []<>Idle(p)

\* C25 witness: a Read-by-identity has gone through its three round trips
\* and answered while the other goroutine is inside the loop of a stress
\* request.
C25_Witness ==
    /\ last.req.op = "GetUser"
    /\ Len(last.calls) = 3
    /\ ~last.alone
    /\ \E p \in Procs : pc[p] = "Stress_Loop" /\ loc[p].i > 0

\* C26: a Read-collection whose query fails, at the query itself or while
\* the rows are read, returns a server error in that step and leaves the
\* cache alone; the write-back and the 200 are those of a request all of
\* whose Store calls succeeded.
C26_PartialResultIsAnError ==
    [][\A p \in Procs :
        /\ (pc[p] = "GetUsers_Query" /\ GetUsers_Query(p)
                /\ StoreFailures(CallsAfter(p)) # {}) =>
            /\ pc'[p] = "idle"
            /\ last'.resp.status = StatusInternalServerError
            /\ cache' = cache
        /\ (pc[p] = "GetUsers_Set" /\ GetUsers_Set(p)) =>
            StoreFailures(calls[p]) = {}]_vars

\* C27: for every id, from some point on every Read-collection that answers
\* 200 while the table holds a row of that id returns that row.
C27_EventuallyConsistent ==
    \A id \in 1..MaxSeq :
        <>[][\A p \in Procs :
                (GetUsersReturns(p) /\ last'.resp.status = StatusOK) =>
                    \A u \in SelectById(id) : UserJSON(u) \in BodyUsers(last'.resp.body)]_vars

\* C28: every key user:<id> of the cache holds the serialization of the row
\* that the table holds for that id.
C28_UserEntryNeverStale ==
    \A k \in DOMAIN cache \ {UsersAllKey} :
        \E u \in Rows :
            /\ k = UserKey(u.id)
            /\ SelectById(u.id) = {u}
            /\ cache[k].val = Marshal(UserJSON(u))

\* C28 witness: user:1 was cached before the second Create, and is still
\* cached, having aged, with both rows in the table.
C28_Witness ==
    /\ UserKey(1) \in DOMAIN cache
    /\ cache[UserKey(1)].ttl < TTL
    /\ Len(users) = 2
    /\ CreateOK(last)

\* C29: a step of a handler leaves every cache key but the handler's own as
\* it is: Read-collection touches only "users:all", which it sets or leaves;
\* Read-by-identity only "user:<id>" of its path segment; Create only
\* "users:all", which it deletes or leaves; health and the stress test none.
\* A hit answers with the value under the handler's own key.
OtherKeysKept(key) ==
    /\ DOMAIN cache' \ {key} = DOMAIN cache \ {key}
    /\ \A k \in DOMAIN cache \ {key} : cache'[k] = cache[k]
OnlyDeletes(key) == cache' = cache \/ key \notin DOMAIN cache'
OnlySets(key) == cache' = cache \/ key \in DOMAIN cache'
C29_OwnKeyOnly ==
    [][\A p \in Procs :
        /\ (ReqAfter(p).op = "GetUsers"
                /\ (GetUsers_Get(p) \/ GetUsers_Query(p) \/ GetUsers_Set(p))) =>
            /\ OtherKeysKept("users:all") /\ OnlySets("users:all")
            /\ CallsAfter(p) = <<Call("RDB.Get", FALSE)>> =>
                    last'.resp.body = cache["users:all"].val
        /\ (ReqAfter(p).op = "GetUser"
                /\ (GetUser_Get(p) \/ GetUser_Query(p) \/ GetUser_Set(p))) =>
            /\ OtherKeysKept("user:" \o ReqAfter(p).seg)
            /\ OnlySets("user:" \o ReqAfter(p).seg)
            /\ CallsAfter(p) = <<Call("RDB.Get", FALSE)>> =>
                    last'.resp.body = cache["user:" \o ReqAfter(p).seg].val
        /\ (ReqAfter(p).op = "CreateUser"
                /\ (CreateUser_Insert(p) \/ CreateUser_Del(p) \/ CreateUser_Encode(p))) =>
            OtherKeysKept("users:all") /\ OnlyDeletes("users:all")
        /\ (ReqAfter(p).op = "Health" /\ (Health_PingDB(p) \/ Health_PingRedis(p))) =>
            cache' = cache
        /\ (ReqAfter(p).op = "Stress" /\ StressStep(p)) => cache' = cache]_vars

\* C29 witness: a Create has just deleted a cached users:all and left a
\* cached user:1 in place.
C29_Witness ==
    \E p \in Procs :
        /\ pc[p] = "CreateUser_Encode"
        /\ calls[p][2] = Call("RDB.Del", FALSE)
        /\ DOMAIN cache = {"user:1"}
        /\ Len(users) = 2

\* C30: the write-back of a read gives its key 5 minutes to live, whether
\* the key was present or not, and no entry ever has more or none; between
\* writes an entry's time to live only goes down, by the time that passed;
\* and a hit leaves the cache as it is.
WriteBack(p) == pc[p] \in {"GetUsers_Set", "GetUser_Set"} /\ pc'[p] = "idle"
C30_FixedTTLOnEveryWrite ==
    /\ [](\A k \in DOMAIN cache : cache[k].ttl >= 1 /\ cache[k].ttl <= 5)
    /\ [][
        /\ \A p \in Procs : (WriteBack(p) /\ ~last'.calls[Len(last'.calls)].err) =>
            \E k \in DOMAIN cache' :
                /\ cache'[k].ttl = 5
                /\ \A j \in DOMAIN cache' \ {k} : j \in DOMAIN cache /\ cache'[j] = cache[j]
        /\ (\A p \in Procs : ~WriteBack(p)) =>
            \A k \in DOMAIN cache' :
                /\ k \in DOMAIN cache
                /\ cache'[k].val = cache[k].val
                /\ cache'[k].ttl = cache[k].ttl \/ cache'[k].ttl = cache[k].ttl - TickMinutes
        /\ \A p \in Procs :
            (cache' # cache /\ Idle(p) /\ pc'[p] = "idle"
                    /\ last'.calls = <<Call("RDB.Get", FALSE)>>)
                => ~(GetUsers_Get(p) \/ GetUser_Get(p))
       ]_vars

\* C30 witness: a write-back has just set users:all again while it was
\* cached and had aged, next to an entry that goes on ageing.
C30_Witness ==
    /\ last.req.op = "GetUsers"
    /\ Len(last.calls) = 4 /\ last.calls[4] = Call("RDB.Set", FALSE)
    /\ UsersAllKey \in DOMAIN cache /\ cache[UsersAllKey].ttl = TTL
    /\ UserKey(1) \in DOMAIN cache /\ cache[UserKey(1)].ttl < TTL

\* C31: the stress handler starts its counter at 0, every step of its loop
\* adds one to it and is taken with the counter below iterations, nothing
\* but the handler's own steps moves the counter, the handler answers when
\* the counter has reached iterations, neither earlier nor later, and no
\* handler stays in the loop forever.
C31_ExactlyIterationsSteps ==
    /\ [][\A p \in Procs :
            /\ (Starts(p, "Stress") /\ Stress_Init(p)) =>
                pc'[p] = "Stress_Loop" /\ loc'[p].i = 0
            /\ (pc[p] = "Stress_Loop" /\ pc'[p] = "Stress_Loop") =>
                \/ loc'[p].i = loc[p].i
                \/ loc'[p].i = loc[p].i + 1 /\ loc[p].i < Iterations /\ Stress_Loop(p)
            /\ (pc[p] = "Stress_Loop" /\ pc'[p] # "Stress_Loop") =>
                /\ Stress_Encode(p)
                /\ loc[p].i = Iterations
                /\ last'.resp.body[1].iterations = Iterations]_vars
    /\ \A p \in Procs : []<>(pc[p] # "Stress_Loop")

\* C31 witness: one stress handler has taken all its steps and is about to
\* answer while another has taken none yet.
C31_Witness ==
    \E p, q \in Procs :
        /\ pc[p] = "Stress_Loop" /\ loc[p].i = Iterations
        /\ pc[q] = "Stress_Loop" /\ loc[q].i = 0

\* C32: an instance whose initDB found the Store unreachable, and so created
\* no table, serves health, which answers 200 "healthy" with the database
\* "disconnected" when its ping fails, and once the Store answers its calls
\* no Read-collection and no Create is refused for want of the table.
TableMissing == HttpError(StoreErrMsg(TRUE), StatusInternalServerError)
C32_ServesOnceStoreReachable ==
    [][\A p \in Procs :
        /\ (pc[p] = "Health_PingRedis" /\ Health_PingRedis(p) /\ calls[p][1].err) =>
            /\ last'.resp.status = StatusOK
            /\ last'.resp.body[1].status = "healthy"
            /\ last'.resp.body[1].database = "disconnected"
        /\ GetUsersReturns(p) => last'.resp # TableMissing
        /\ (CreateStarts(p) /\ pc'[p] = "idle") => last'.resp # TableMissing]_vars

\* C33: the row a Create inserts has the next value of the sequence as its
\* id and the Store's clock as its created_at, whatever the body names; the
\* response carries the id and the created_at of that row; and an id or a
\* created_at named in the body is in neither.
C33_StoreAssignsIdentity ==
    [][\A p \in Procs :
        /\ (CreateStarts(p) /\ pc'[p] = "CreateUser_Del") =>
            /\ users'[Len(users')].id = seq + 1
            /\ users'[Len(users')].created_at \in CurrentTimestamps
            /\ "id" \in DOMAIN Head(req'[p].body) =>
                /\ users'[Len(users')].id # Head(req'[p].body).id
                /\ users'[Len(users')].created_at # Head(req'[p].body).created_at
        /\ (pc[p] = "CreateUser_Encode" /\ CreateUser_Encode(p)) =>
            /\ \E u \in Rows :
                /\ u.email = Decode(last'.req.body).email
                /\ last'.resp.body[1].id = u.id
                /\ last'.resp.body[1].created_at = u.created_at
            /\ "id" \in DOMAIN Head(last'.req.body) =>
                /\ last'.resp.body[1].id # Head(last'.req.body).id
                /\ last'.resp.body[1].created_at # Head(last'.req.body).created_at]_vars

\* C33 witness: createUser of backend/main.go has answered a body that names
\* an id and a created_at, and its row is the second of the table.
C33_Witness ==
    /\ router = "gorilla"
    /\ CreateOK(last)
    /\ "id" \in DOMAIN Head(last.req.body)
    /\ Len(users) = 2
    /\ last.resp.body[1].id = users[2].id

\* Comparison and powers of two on base-10000 digits.
RECURSIVE LimbLess(_, _)
LimbLess(a, b) ==
    IF Len(a) # Len(b) THEN Len(a) < Len(b)
    ELSE IF a = <<>> THEN FALSE
    ELSE IF a[Len(a)] # b[Len(b)] THEN a[Len(a)] < b[Len(b)]
    ELSE LimbLess(SubSeq(a, 1, Len(a) - 1), SubSeq(b, 1, Len(b) - 1))
RECURSIVE Pow2(_)
Pow2(n) == IF n <= 30 THEN Limbs(2 ^ n) ELSE Times(Limbs(2 ^ 30), Pow2(n - 30))

\* C34: the accumulator starts at 0 and never goes down, so it is largest
\* at the end of the loop, where it is the sum of 0..iterations-1; for the
\* handler's 100000000 iterations that sum is 4999999950000000, which is
\* below 2^(IntBits-1), the first value an int cannot hold; so is every
\* value the accumulator takes.
C34_AccumulatorFitsInt ==
    /\ [](\A p \in Procs : pc[p] = "Stress_Loop" =>
            /\ loc[p].result >= 0
            /\ ~LimbLess(SumBelow(Iterations), Limbs(loc[p].result))
            /\ LimbLess(Limbs(loc[p].result), Pow2(IntBits - 1)))
    /\ [][\A p \in Procs : (pc[p] = "Stress_Loop" /\ pc'[p] = "Stress_Loop") =>
            loc'[p].result >= loc[p].result]_vars
    /\ [](/\ SumBelow(CodeIterations) = <<0, 5000, 9999, 4999>>
          /\ LimbLess(SumBelow(CodeIterations), Pow2(IntBits - 1))
          /\ ~LimbLess(SumBelow(CodeIterations), SumBelow(CodeIterations - 1)))

\* C34 witness: the accumulator of a stress handler holds its largest value,
\* the loop being over and the response not yet written, after an earlier
\* stress request has answered.
C34_Witness ==
    /\ last.req.op = "Stress"
    /\ \E p \in Procs :
        /\ pc[p] = "Stress_Loop"
        /\ ~LoopCond(loc[p].i)
        /\ Limbs(loc[p].result) = SumBelow(Iterations)
====
